---- MODULE Spec2Model ----
(***************************************************************************)
(* ExpTrackerBot: the webhook controller (handleWebhook), the idempotency  *)
(* store (WebhookEvent), the messaging client (waha), the language-model   *)
(* client (gemini) and the budgeting client (actual) as one state machine. *)
(* Every await of the handler is a scheduling point: an action is the      *)
(* completion of the awaited call followed by the synchronous code up to   *)
(* the next awaited call, which it issues.                                 *)
(***************************************************************************)
EXTENDS Integers, Sequences, FiniteSets, TLC

\* ------------------------------------------------------------------ bounds
NumRequests == 2
MaxClock == 1
TicksPerRetention == 1

\* ------------------------------------------------------- program constants
ExpireAfterSeconds == 86400
CentsPerUnit == 100

TickSeconds == ExpireAfterSeconds \div TicksPerRetention
SecondsPerDay == 24 * 60 * 60

Requests == 1..NumRequests

\* ------------------------------------------------------------ text values
\* A piece of text is a sequence of one-character strings.
Null == <<"<null>">>
Undefined == <<"<undefined>">>

UpperChars == <<"A", "B", "C", "D", "E", "F", "G", "H", "I", "J", "K", "L", "M",
                "N", "O", "P", "Q", "R", "S", "T", "U", "V", "W", "X", "Y", "Z">>
LowerChars == <<"a", "b", "c", "d", "e", "f", "g", "h", "i", "j", "k", "l", "m",
                "n", "o", "p", "q", "r", "s", "t", "u", "v", "w", "x", "y", "z">>

RECURSIVE IndexOf(_, _, _)
IndexOf(ch, seq, i) ==
  IF i > Len(seq) THEN 0
  ELSE IF seq[i] = ch THEN i
  ELSE IndexOf(ch, seq, i + 1)

toLowerCaseChar(ch) ==
  LET i == IndexOf(ch, UpperChars, 1) IN IF i = 0 THEN ch ELSE LowerChars[i]

toLowerCase(s) == [i \in 1..Len(s) |-> toLowerCaseChar(s[i])]

Digits == <<"0", "1", "2", "3", "4", "5", "6", "7", "8", "9">>
IsDigit(ch) == IndexOf(ch, Digits, 1) # 0
DigitValue(ch) == IndexOf(ch, Digits, 1) - 1

\* parseFloat on text without a fraction or exponent part: an optional sign,
\* then the longest run of digits; NaN when there is no digit.
NaN == [nan |-> TRUE, v |-> 0]
Num(n) == [nan |-> FALSE, v |-> n]

RECURSIVE ParseDigits(_, _, _)
ParseDigits(s, i, acc) ==
  IF i > Len(s) \/ ~IsDigit(s[i]) THEN acc
  ELSE ParseDigits(s, i + 1, acc * 10 + DigitValue(s[i]))

parseFloat(s) ==
  LET neg == Len(s) > 0 /\ s[1] = "-"
      start == IF Len(s) > 0 /\ s[1] \in {"-", "+"} THEN 2 ELSE 1
  IN IF start > Len(s) \/ ~IsDigit(s[start]) THEN NaN
     ELSE Num((IF neg THEN -1 ELSE 1) * ParseDigits(s, start, 0))

Times(x, k) == IF x.nan THEN NaN ELSE Num(x.v * k)
Abs(x) == IF x.nan THEN NaN ELSE Num(IF x.v < 0 THEN -x.v ELSE x.v)
Neg(x) == IF x.nan THEN NaN ELSE Num(-x.v)

\* Array.prototype.find: the first element satisfying the test, or none.
RECURSIVE FindIndex(_, _, _)
FindIndex(seq, Test(_), i) ==
  IF i > Len(seq) THEN 0
  ELSE IF Test(seq[i]) THEN i
  ELSE FindIndex(seq, Test, i + 1)

\* ------------------------------------------------- the budgeting backend
\* The entities the backend returns, in backend order. Old is closed; Old and
\* BRI have no internal transfer payee. The last account is a closed one whose
\* name differs from Gopay's in letter case only.
Cash == <<"C", "a", "s", "h">>
Gopay == <<"G", "o", "p", "a", "y">>
Old == <<"O", "l", "d">>
BRI == <<"B", "R", "I">>
Food == <<"F", "o", "o", "d">>
Bills == <<"B", "i", "l", "l", "s">>
Warung == <<"W", "a", "r", "u", "n", "g">>
Nope == <<"N", "o", "p", "e">>
Electricity == <<"E", "l", "e", "c">>

BackendAccounts ==
  << [id |-> "acc1", name |-> Cash, closed |-> FALSE, balance |-> 150000],
     [id |-> "acc2", name |-> Gopay, closed |-> FALSE, balance |-> -2550],
     [id |-> "acc3", name |-> Old, closed |-> TRUE, balance |-> 700],
     [id |-> "acc4", name |-> BRI, closed |-> FALSE, balance |-> 0],
     [id |-> "acc5", name |-> <<"G", "O", "P", "A", "Y">>, closed |-> TRUE, balance |-> 0] >>

BackendCategories ==
  << [id |-> "cat1", name |-> Food],
     [id |-> "cat2", name |-> Bills] >>

BackendPayees ==
  << [id |-> "pay1", name |-> Cash, transfer_acct |-> "acc1"],
     [id |-> "pay2", name |-> Gopay, transfer_acct |-> "acc2"],
     [id |-> "pay3", name |-> Warung, transfer_acct |-> "none"] >>

BackendBudgetMonth ==
  [categoryGroups |->
    << [name |-> "Usual Expenses", is_income |-> FALSE,
        categories |-> << [name |-> Food, budgeted |-> 200000, spent |-> -50000,
                           balance |-> 150000],
                          [name |-> Bills, budgeted |-> 100000, spent |-> -120000,
                           balance |-> -20000] >>],
       [name |-> "Income", is_income |-> TRUE,
        categories |-> << [name |-> <<"P", "a", "y">>, budgeted |-> 0, spent |-> 0,
                           balance |-> 0] >>],
       [name |-> "Savings", is_income |-> FALSE,
        categories |-> << [name |-> <<"F", "u", "n", "d">>, budgeted |-> 5000,
                           spent |-> 0, balance |-> 5075] >>] >>]

Names(entities) == [i \in 1..Len(entities) |-> entities[i].name]
InSeq(x, seq) == \E i \in 1..Len(seq) : seq[i] = x

\* ------------------------------------------------------ webhook request
\* The request bodies that pass the route's validation (event a string,
\* payload optional, payload.id optional).
NoId == "<absent>"
EventIds == {"e1", "e2"}
Bodies ==
  { [event |-> "message", hasPayload |-> TRUE, id |-> "e1", from |-> "alice"],
    [event |-> "message", hasPayload |-> TRUE, id |-> "e2", from |-> "bob"],
    [event |-> "message", hasPayload |-> TRUE, id |-> NoId, from |-> "alice"],
    [event |-> "session.status", hasPayload |-> TRUE, id |-> "e1", from |-> "alice"],
    [event |-> "message", hasPayload |-> FALSE, id |-> NoId, from |-> "<none>"] }

NoBody == [event |-> "<none>", hasPayload |-> FALSE, id |-> NoId, from |-> "<none>"]

\* The test of the handler's outer if.
IsMessageWithPayload(b) == b.event = "message" /\ b.hasPayload
IsProcessed(b) == b.event = "message" /\ b.hasPayload /\ b.id # NoId

\* ------------------------------------------------- language-model output
Missing == "<missing>"
IntentEnum == {"transaction", "question", "query_balance"}
DetailEnum == {"expense", "income", "transfer"}

\* What the model may answer to determineIntent, before validation. A run
\* with one request draws from the wide menu; runs with several requests
\* draw from the narrow one, which still takes every branch of the handler.
IntentOutputs(menu) ==
  IF menu = "narrow"
  THEN
  { [intent |-> "transaction", transactionDetail |-> "transfer"],
    [intent |-> "question", transactionDetail |-> "expense"],
    [intent |-> "query_balance", transactionDetail |-> "income"],
    [intent |-> "smalltalk", transactionDetail |-> "expense"] }
  ELSE
  { [intent |-> "transaction", transactionDetail |-> "expense"],
    [intent |-> "transaction", transactionDetail |-> "income"],
    [intent |-> "transaction", transactionDetail |-> "transfer"],
    [intent |-> "question", transactionDetail |-> "expense"],
    [intent |-> "query_balance", transactionDetail |-> "income"],
    [intent |-> "question", transactionDetail |-> Missing],
    [intent |-> "smalltalk", transactionDetail |-> "expense"] }

intentZodSchema(o) == o.intent \in IntentEnum /\ o.transactionDetail \in DetailEnum

NoIntent == [intent |-> "<none>", transactionDetail |-> Missing]

\* What the model may answer to processTransaction, before validation.
TxOut(desc, amount, category, payee, source) ==
  [description |-> desc, amount |-> amount, category |-> category, payee |-> payee,
   source_account_name |-> source, message_to_user |-> "Recorded!"]

TransactionOutputs(menu) ==
  IF menu = "narrow"
  THEN
  { TxOut("", <<"7", "5">>, Food, <<"g", "o", "p", "a", "y">>, Cash),
    TxOut("x", <<"1", "0">>, Food, Nope, Cash),
    TxOut("x", <<"1", "0">>, Electricity, Warung, Cash) }
  ELSE
  { TxOut("kopi", <<"2", "0", "0", "0", "0">>, Food, Warung, Cash),
    TxOut("", <<"-", "5">>, Bills, Null, Gopay),
    TxOut("gaji", <<"5", "0", "0", "0", "0", "0", "0">>, Food, <<"g", "o", "p", "a", "y">>, Cash),
    TxOut("", <<"-", "7", "5">>, Food, Cash, Gopay),
    TxOut("x", <<"1", "0">>, Food, Nope, Cash),
    TxOut("x", <<"1", "0">>, Food, Old, Cash),
    TxOut("x", <<"1", "0">>, Food, Cash, Old),
    TxOut("x", <<"1", "0">>, Food, BRI, Old),
    TxOut("x", <<"1", "0">>, Food, Nope, Old),
    TxOut("x", <<"1", "0">>, Food, <<"C", "a", "s", "h", " ">>, Gopay),
    TxOut("x", <<"1", "0">>, Food, <<"C", "a", "s">>, Gopay),
    TxOut("x", <<"a", "b", "c">>, Food, Gopay, Cash),
    TxOut("x", <<"1", "0">>, Electricity, Warung, Cash),
    TxOut("x", <<"1", "0">>, Food, Warung, <<"c", "a", "s", "h">>) }

transactionZodSchema(o, accountNames, categoryNames) ==
  /\ InSeq(o.category, categoryNames)
  /\ InSeq(o.source_account_name, accountNames)

NoTransaction == TxOut("", <<>>, <<>>, Null, <<>>)

\* What the model may answer to processBalanceQuery, before validation.
QueryOutputs(menu) ==
  IF menu = "narrow"
  THEN
  { [query_type |-> "account", name |-> <<"A", "l", "l">>],
    [query_type |-> "summary", name |-> Null],
    [query_type |-> "forecast", name |-> Null] }
  ELSE
  { [query_type |-> "account", name |-> <<"A", "l", "l">>],
    [query_type |-> "account", name |-> <<"c", "a", "s", "h">>],
    [query_type |-> "account", name |-> Nope],
    [query_type |-> "account", name |-> Null],
    [query_type |-> "budget", name |-> Food],
    [query_type |-> "budget", name |-> Null],
    [query_type |-> "summary", name |-> <<"a", "l", "l">>],
    [query_type |-> "forecast", name |-> Null] }

balanceQueryZodSchema(o) == o.query_type \in {"account", "budget", "summary"}

NoQuery == [query_type |-> "<none>", name |-> Null]

\* ------------------------------------------------------- replies and ledger
Reply(kind, name, text, lines) ==
  [kind |-> kind, name |-> name, text |-> text, lines |-> lines]
UndefinedReply == Reply("undefined", Undefined, "", <<>>)

\* Intl.NumberFormat('id-ID', currency IDR) of cents / 100: sign, grouped
\* units and two decimals.
formatIDR(cents) ==
  LET a == IF cents < 0 THEN -cents ELSE cents
  IN [negative |-> cents < 0, units |-> a \div CentsPerUnit, decimals |-> a % CentsPerUnit]

Absent == "<absent>"

\* new Date().toISOString().split('T')[0], as a day number.
Today(now) == (now * TickSeconds) \div SecondsPerDay

\* transactionData.description || `Transfer to ${name}`
Notes(description, fallback, name) ==
  IF description # "" THEN [text |-> description, name |-> <<>>]
  ELSE [text |-> fallback, name |-> name]

AccountByExactName(accounts, name) ==
  FindIndex(accounts, LAMBDA acc : acc.name = name, 1)
AccountByName(accounts, name) ==
  FindIndex(accounts, LAMBDA acc : toLowerCase(acc.name) = toLowerCase(name), 1)

CategoryByName(categories, name) ==
  FindIndex(categories, LAMBDA cat : toLowerCase(cat.name) = toLowerCase(name), 1)

TransferPayeeOf(payees, accountId) ==
  FindIndex(payees, LAMBDA p : p.transfer_acct = accountId, 1)

amountAsParsed(data) == parseFloat(data.amount)
amountInCents(data) == Times(parseFloat(data.amount), CentsPerUnit)

Withdrawal(data, today, destinationAccount, destinationTransferPayee) ==
  [date |-> today, amount |-> Neg(Abs(amountInCents(data))),
   payee |-> destinationTransferPayee.id, payee_name |-> Undefined,
   notes |-> Notes(data.description, "Transfer to ", destinationAccount.name),
   category |-> Absent, cleared |-> FALSE]

DepositAsParsed(data, today, account, sourceTransferPayee) ==
  [date |-> today, amount |-> amountInCents(data),
   payee |-> sourceTransferPayee.id, payee_name |-> Undefined,
   notes |-> Notes(data.description, "Transfer from ", account.name),
   category |-> Absent, cleared |-> FALSE]
Deposit(data, today, account, sourceTransferPayee) ==
  [date |-> today, amount |-> Abs(amountInCents(data)),
   payee |-> sourceTransferPayee.id, payee_name |-> Undefined,
   notes |-> Notes(data.description, "Transfer from ", account.name),
   category |-> Absent, cleared |-> FALSE]

SignedAmountRaw(transactionDetail, cents) ==
  IF transactionDetail = "income" THEN cents ELSE Neg(cents)
SignedAmount(transactionDetail, cents) ==
  IF transactionDetail = "income" THEN Abs(cents) ELSE Neg(Abs(cents))

NewTransaction(data, transactionDetail, today, category) ==
  [date |-> today, amount |-> SignedAmount(transactionDetail, amountInCents(data)),
   payee |-> Absent, payee_name |-> data.payee,
   notes |-> [text |-> data.description, name |-> <<>>],
   category |-> category.id, cleared |-> FALSE]

Post(accountId, tx) == [accountId |-> accountId, tx |-> tx]

\* The outcome of the synchronous code between processTransaction's return
\* and the next await: a reply (resolution failure), a TypeError, or the
\* addTransactions calls to make, in order.
Plan(threw, reply, posts) == [threw |-> threw, reply |-> reply, posts |-> posts]

TransferPlanNoSourcePayeeCheck(data, today, accounts, payees, account) ==
  IF data.payee = Null THEN Plan(TRUE, UndefinedReply, <<>>)
  ELSE
    LET d == AccountByName(accounts, data.payee) IN
    IF d = 0 THEN Plan(FALSE, Reply("destination_account_not_found", data.payee, "", <<>>), <<>>)
    ELSE
      LET destinationAccount == accounts[d]
          s == TransferPayeeOf(payees, account.id)
          t == TransferPayeeOf(payees, destinationAccount.id)
      IN IF t = 0
           THEN Plan(FALSE, Reply("transfer_payee_not_found", destinationAccount.name, "", <<>>), <<>>)
         ELSE Plan(FALSE, UndefinedReply,
                   << Post(account.id, Withdrawal(data, today, destinationAccount, payees[t])),
                      Post(destinationAccount.id,
                           Deposit(data, today, account, payees[IF s = 0 THEN t ELSE s])) >>)
TransferPlanDepositFirst(data, today, accounts, payees, account) ==
  IF data.payee = Null THEN Plan(TRUE, UndefinedReply, <<>>)
  ELSE
    LET d == AccountByName(accounts, data.payee) IN
    IF d = 0 THEN Plan(FALSE, Reply("destination_account_not_found", data.payee, "", <<>>), <<>>)
    ELSE
      LET destinationAccount == accounts[d]
          s == TransferPayeeOf(payees, account.id)
          t == TransferPayeeOf(payees, destinationAccount.id)
      IN IF t = 0
           THEN Plan(FALSE, Reply("transfer_payee_not_found", destinationAccount.name, "", <<>>), <<>>)
         ELSE IF s = 0
           THEN Plan(FALSE, Reply("transfer_payee_not_found", account.name, "", <<>>), <<>>)
         ELSE Plan(FALSE, UndefinedReply,
                   << Post(destinationAccount.id, Deposit(data, today, account, payees[s])),
                      Post(account.id,
                           Withdrawal(data, today, destinationAccount, payees[t])) >>)
TransferPlanSourcePayeeFirst(data, today, accounts, payees, account) ==
  IF data.payee = Null THEN Plan(TRUE, UndefinedReply, <<>>)
  ELSE
    LET d == AccountByName(accounts, data.payee) IN
    IF d = 0 THEN Plan(FALSE, Reply("destination_account_not_found", data.payee, "", <<>>), <<>>)
    ELSE
      LET destinationAccount == accounts[d]
          s == TransferPayeeOf(payees, account.id)
          t == TransferPayeeOf(payees, destinationAccount.id)
      IN IF s = 0
           THEN Plan(FALSE, Reply("transfer_payee_not_found", account.name, "", <<>>), <<>>)
         ELSE IF t = 0
           THEN Plan(FALSE, Reply("transfer_payee_not_found", destinationAccount.name, "", <<>>), <<>>)
         ELSE Plan(FALSE, UndefinedReply,
                   << Post(account.id, Withdrawal(data, today, destinationAccount, payees[t])),
                      Post(destinationAccount.id, Deposit(data, today, account, payees[s])) >>)
TransferPlan(data, today, accounts, payees, account) ==
  IF data.payee = Null THEN Plan(TRUE, UndefinedReply, <<>>)
  ELSE
    LET d == AccountByName(accounts, data.payee) IN
    IF d = 0 THEN Plan(FALSE, Reply("destination_account_not_found", data.payee, "", <<>>), <<>>)
    ELSE
      LET destinationAccount == accounts[d]
          s == TransferPayeeOf(payees, account.id)
          t == TransferPayeeOf(payees, destinationAccount.id)
      IN IF t = 0
           THEN Plan(FALSE, Reply("transfer_payee_not_found", destinationAccount.name, "", <<>>), <<>>)
         ELSE IF s = 0
           THEN Plan(FALSE, Reply("transfer_payee_not_found", account.name, "", <<>>), <<>>)
         ELSE Plan(FALSE, UndefinedReply,
                   << Post(account.id, Withdrawal(data, today, destinationAccount, payees[t])),
                      Post(destinationAccount.id, Deposit(data, today, account, payees[s])) >>)

IncomeExpensePlan(data, transactionDetail, today, categories, account) ==
  LET c == CategoryByName(categories, data.category) IN
  IF c = 0 THEN Plan(FALSE, Reply("category_not_found", data.category, "", <<>>), <<>>)
  ELSE Plan(FALSE, UndefinedReply,
            << Post(account.id, NewTransaction(data, transactionDetail, today, categories[c])) >>)

TransactionPlan(data, transactionDetail, today, accounts, categories, payees) ==
  LET a == AccountByName(accounts, data.source_account_name) IN
  IF a = 0
    THEN Plan(FALSE, Reply("account_not_found", data.source_account_name, "", <<>>), <<>>)
  ELSE IF transactionDetail = "transfer"
    THEN TransferPlan(data, today, accounts, payees, accounts[a])
  ELSE IncomeExpensePlan(data, transactionDetail, today, categories, accounts[a])

\* ----------------------------------------------------------- balance query
All == <<"a", "l", "l">>
Line(heading, group, name, amount) ==
  [heading |-> heading, group |-> group, name |-> name, amount |-> amount]
AccountLine(acc) == Line(FALSE, "", acc.name, formatIDR(acc.balance))

\* The synchronous code after processBalanceQuery returns, for query_type
\* account: a TypeError, a not-found reply, or the accounts whose balance
\* is fetched (indices into accounts, in order).
QPlan(threw, reply, fetch, kind) ==
  [threw |-> threw, reply |-> reply, fetch |-> fetch, kind |-> kind]

EveryAccount(accounts, i) == [k \in 1..Len(accounts) |-> k]
RECURSIVE OpenAccounts(_, _)
OpenAccounts(accounts, i) ==
  IF i > Len(accounts) THEN <<>>
  ELSE (IF ~accounts[i].closed THEN <<i>> ELSE <<>>) \o OpenAccounts(accounts, i + 1)

AccountQueryPlan(queryData, accounts) ==
  IF queryData.name = Null THEN QPlan(TRUE, UndefinedReply, <<>>, "")
  ELSE IF toLowerCase(queryData.name) = All
    THEN QPlan(FALSE, UndefinedReply, OpenAccounts(accounts, 1), "all_account_balances")
  ELSE
    LET a == AccountByName(accounts, queryData.name) IN
    IF a # 0 THEN QPlan(FALSE, UndefinedReply, <<a>>, "account_balance")
    ELSE QPlan(FALSE, Reply("account_not_found", queryData.name, "", <<>>), <<>>, "")

\* responseParts.join('\n') once the balances are there.
BalancesReply(kind, fetch, accounts) ==
  Reply(kind, <<>>, "", [i \in 1..Len(fetch) |-> AccountLine(accounts[fetch[i]])])

RECURSIVE FlatCategories(_, _)
FlatCategories(groups, i) ==
  IF i > Len(groups) THEN <<>>
  ELSE groups[i].categories \o FlatCategories(groups, i + 1)

RECURSIVE EveryGroupLines(_, _)
EveryGroupLines(groups, i) ==
  IF i > Len(groups) THEN <<>>
  ELSE <<Line(TRUE, groups[i].name, <<>>, formatIDR(0))>>
       \o [j \in 1..Len(groups[i].categories) |->
             Line(FALSE, groups[i].name, groups[i].categories[j].name,
                  formatIDR(groups[i].categories[j].balance))]
       \o EveryGroupLines(groups, i + 1)
RECURSIVE SummaryLines(_, _)
SummaryLines(groups, i) ==
  IF i > Len(groups) THEN <<>>
  ELSE (IF ~groups[i].is_income
          THEN <<Line(TRUE, groups[i].name, <<>>, formatIDR(0))>>
               \o [j \in 1..Len(groups[i].categories) |->
                     Line(FALSE, groups[i].name, groups[i].categories[j].name,
                          formatIDR(groups[i].categories[j].balance))]
          ELSE <<>>)
       \o SummaryLines(groups, i + 1)

AbsInt(n) == IF n < 0 THEN -n ELSE n

\* The synchronous code after getBudgetMonth returns: a TypeError (a field
\* the object does not have is undefined, and undefined has no flatMap or
\* forEach), or the reply.
BudgetReply(queryData, budgetData) ==
  IF queryData.name # Null /\ queryData.name # <<>> /\ toLowerCase(queryData.name) # All
  THEN
    IF "categorGroups" \notin DOMAIN budgetData THEN [threw |-> TRUE, reply |-> UndefinedReply]
    ELSE
      LET cats == FlatCategories(budgetData["categorGroups"], 1)
          c == CategoryByName(cats, queryData.name)
      IN IF c # 0
           THEN [threw |-> FALSE,
                 reply |-> Reply("category_budget", cats[c].name, "",
                             << Line(FALSE, "Budgeted", <<>>, formatIDR(cats[c].budgeted)),
                                Line(FALSE, "Spent", <<>>, formatIDR(AbsInt(cats[c].spent))),
                                Line(FALSE, "Remaining", <<>>, formatIDR(cats[c].balance)) >>)]
         ELSE [threw |-> FALSE,
               reply |-> Reply("budget_category_not_found", queryData.name, "", <<>>)]
  ELSE
    IF "categoryGroups" \notin DOMAIN budgetData THEN [threw |-> TRUE, reply |-> UndefinedReply]
    ELSE [threw |-> FALSE,
          reply |-> Reply("budget_summary", <<>>, "",
                          SummaryLines(budgetData["categoryGroups"], 1))]

\* ------------------------------------------------------------------- state
VARIABLES
  pc,             \* per request: the await its handler is suspended at
  body,           \* per request: req.body
  response,       \* per request: what the client got
  local,          \* per request: the handler's local variables
  calls,          \* per request: the collaborator calls issued, in order
  store,          \* the WebhookEvent collection
  expiries,       \* per event id: how many of its records the TTL monitor removed
  clock,          \* time, in ticks of TickSeconds
  isInitialized,  \* actual.service's module flag
  actualOpen,     \* whether the budgeting library holds an open budget
  ledger,         \* the transactions the budgeting backend accepted
  sent,           \* the text messages the gateway accepted
  menu,           \* which answers the collaborators draw from in this run
  log             \* per request: the warnings and errors logged, in order

vars == <<pc, body, response, local, calls, store, expiries, clock,
          isInitialized, actualOpen, ledger, sent, menu, log>>

NoLocal ==
  [intent |-> NoIntent, data |-> NoTransaction, query |-> NoQuery,
   finalResponse |-> UndefinedReply, error |-> "",
   lazyInit |-> FALSE, pending |-> <<>>, addCalls |-> <<>>, fetch |-> <<>>, kind |-> "",
   responseJson |-> NoTransaction]

Init ==
  /\ pc = [r \in Requests |-> "idle"]
  /\ body = [r \in Requests |-> NoBody]
  /\ response = [r \in Requests |-> "none"]
  /\ local = [r \in Requests |-> NoLocal]
  /\ calls = [r \in Requests |-> <<>>]
  /\ store = {}
  /\ expiries = [e \in EventIds |-> 0]
  /\ clock = 0
  /\ isInitialized = FALSE
  /\ actualOpen = FALSE
  /\ ledger = <<>>
  /\ sent = <<>>
  /\ menu = "narrow"
  /\ log = [r \in Requests |-> <<>>]

\* ------------------------------------------------------ idempotency store
HasNoEvent(docs, eventId) == FALSE
HasEvent(docs, eventId) == \E d \in docs : d.eventId = eventId

\* WebhookEvent.findOne({ eventId }): whether a record was found.
FindOneMisses(docs, eventId) == FALSE
ExistingEventOfSuccess(docs, eventId) ==
  \E d \in docs : d.eventId = eventId /\ pc[d.by] # "failed"
existingEvent(docs, eventId) == HasEvent(docs, eventId)

\* WebhookEvent.create under the unique index on eventId.
StoreCreateNoIndex(docs, eventId, now, r) ==
  [ok |-> TRUE, docs |-> docs \cup {[eventId |-> eventId, createdAt |-> now, by |-> r]}]
StoreUpsert(docs, eventId, now, r) ==
  [ok |-> TRUE,
   docs |-> {d \in docs : d.eventId # eventId}
              \cup {[eventId |-> eventId, createdAt |-> now, by |-> r]}]
StoreCreate(docs, eventId, now, r) ==
  IF HasEvent(docs, eventId)
    THEN [ok |-> FALSE, docs |-> docs]
    ELSE [ok |-> TRUE,
          docs |-> docs \cup {[eventId |-> eventId, createdAt |-> now, by |-> r]}]

\* The TTL index on createdAt.
Expired(d, now) == (now - d.createdAt) * TickSeconds >= ExpireAfterSeconds

\* ------------------------------------------------------------ transitions
\* The handler goes on to its next await, having issued calls and written
\* log entries on the way.
StepLog(r, nextPc, newLocal, issued, entries) ==
  /\ pc' = [pc EXCEPT ![r] = nextPc]
  /\ local' = [local EXCEPT ![r] = newLocal]
  /\ calls' = [calls EXCEPT ![r] = @ \o issued]
  /\ log' = [log EXCEPT ![r] = @ \o entries]

Step(r, nextPc, newLocal, issued) == StepLog(r, nextPc, newLocal, issued, <<>>)

\* The request-level error handler logs the error it is handed.
ErrorHandlerLog == <<"logger.error">>

\* catchAsync hands the error to the request-level error handler.
\* The handler's frame is gone once it has returned or thrown; the error
\* handed to the error handler is kept.
Fail(r, err) ==
  /\ pc' = [pc EXCEPT ![r] = "failed"]
  /\ response' = [response EXCEPT ![r] = "error"]
  /\ local' = [local EXCEPT ![r] = [NoLocal EXCEPT !.error = err]]
  /\ calls' = calls
  /\ log' = [log EXCEPT ![r] = @ \o ErrorHandlerLog]

\* res.status(200).send({status}).
Respond(r, status) ==
  /\ pc' = [pc EXCEPT ![r] = "done"]
  /\ response' = [response EXCEPT ![r] = status]
  /\ local' = [local EXCEPT ![r] = NoLocal]
  /\ calls' = calls
  /\ log' = log

GenericReply(intent) ==
  IF intent = "transaction"
    THEN Reply("generic_transaction_error", <<>>, "", <<>>)
    ELSE Reply("generic_balance_error", <<>>, "", <<>>)

\* The branch's catch block, then its finally block up to the await in it.
CaughtWithoutFinally(r, err) ==
  StepLog(r, "shutdown_done",
          [local[r] EXCEPT !.finalResponse = GenericReply(local[r].intent.intent),
                           !.error = err, !.lazyInit = FALSE, !.pending = <<>>],
          <<>>, <<"console.error">>)
CaughtSilently(r, err) ==
  StepLog(r, "shutdown",
          [local[r] EXCEPT !.finalResponse = GenericReply(local[r].intent.intent),
                           !.error = err, !.lazyInit = FALSE, !.pending = <<>>],
          <<"shutdown">>, <<>>)
Caught(r, err) ==
  StepLog(r, "shutdown",
          [local[r] EXCEPT !.finalResponse = GenericReply(local[r].intent.intent),
                           !.error = err, !.lazyInit = FALSE, !.pending = <<>>],
          <<"shutdown">>, <<"console.error">>)

\* The same catch and finally, for an exception thrown by the handler's own
\* code after it has assigned the locals in loc.
CaughtAfter(r, loc, err) ==
  StepLog(r, "shutdown",
          [loc EXCEPT !.finalResponse = GenericReply(local[r].intent.intent),
                      !.error = err, !.lazyInit = FALSE, !.pending = <<>>],
          <<"shutdown">>, <<"console.error">>)

\* processTransaction parsed the model's JSON and its validation threw: the
\* same catch and finally; responseJson is what the model had answered.
Rejected(r, responseJson, err) ==
  StepLog(r, "shutdown",
          [local[r] EXCEPT !.finalResponse = GenericReply(local[r].intent.intent),
                           !.error = err, !.lazyInit = FALSE, !.pending = <<>>,
                           !.responseJson = responseJson],
          <<"shutdown">>, <<"console.error">>)

\* The branch's try block ends normally: the finally block up to its await.
FinallyUnset(r, loc) ==
  Step(r, "shutdown", [loc EXCEPT !.lazyInit = FALSE, !.finalResponse = UndefinedReply],
       <<"shutdown">>)
Finally(r, loc) == Step(r, "shutdown", [loc EXCEPT !.lazyInit = FALSE], <<"shutdown">>)

\* A service function that starts with `if (!isInitialized) await init()`.
Lazy(flag) == ~flag
InitCall(flag) == IF Lazy(flag) THEN <<"init">> ELSE <<>>

Outcomes(possible) == IF possible THEN BOOLEAN ELSE {FALSE}

\* ------------------------------------------------------- the webhook handler
Finished(r) == pc[r] \in {"done", "failed"}
InFlight(r) == pc[r] \notin {"idle", "done", "failed"}

\* POST /webhook: the outer if, and for a processed event the findOne call.
Deliver(r) ==
  /\ pc[r] = "idle"
  /\ \A q \in Requests : q < r => pc[q] # "idle"
  /\ \E b \in Bodies :
       /\ body' = [body EXCEPT ![r] = b]
       /\ IF IsProcessed(b)
            THEN /\ Step(r, "findOne", local[r], <<"findOne">>)
                 /\ UNCHANGED response
            ELSE Respond(r, "received")
  /\ UNCHANGED <<store, expiries, clock, isInitialized, actualOpen, ledger, sent, menu>>

\* findOne returns: duplicate_ignored, or the create call.
FindOne(r) ==
  /\ pc[r] = "findOne"
  /\ \E ok \in BOOLEAN :
       IF ~ok THEN Fail(r, "MongoError")
       ELSE IF existingEvent(store, body[r].id)
         THEN Respond(r, "duplicate_ignored")
         ELSE /\ Step(r, "create", local[r], <<"create">>)
              /\ UNCHANGED response
  /\ UNCHANGED <<body, store, expiries, clock, isInitialized, actualOpen, ledger, sent, menu>>

\* create returns: the record is stored, then sendSeen is called.
CreateBestEffort(r) ==
  /\ pc[r] = "create"
  /\ \E ok \in BOOLEAN :
       LET res == StoreCreate(store, body[r].id, clock, r) IN
       /\ store' = IF ok /\ res.ok THEN res.docs ELSE store
       /\ Step(r, "sendSeen", local[r], <<"sendSeen">>)
       /\ UNCHANGED response
  /\ UNCHANGED <<body, expiries, clock, isInitialized, actualOpen, ledger, sent, menu>>
Create(r) ==
  /\ pc[r] = "create"
  /\ \E ok \in BOOLEAN :
       LET res == StoreCreate(store, body[r].id, clock, r) IN
       IF ~ok THEN Fail(r, "MongoError") /\ UNCHANGED store
       ELSE IF ~res.ok THEN Fail(r, "E11000 duplicate key") /\ UNCHANGED store
       ELSE /\ store' = res.docs
            /\ Step(r, "sendSeen", local[r], <<"sendSeen">>)
            /\ UNCHANGED response
  /\ UNCHANGED <<body, expiries, clock, isInitialized, actualOpen, ledger, sent, menu>>

\* Whether the gateway accepts sendSeen: either way in a run with one
\* request; runs with several requests keep to a gateway that accepts it.
SeenOutcomes(m) == IF m = "narrow" THEN {TRUE} ELSE BOOLEAN

\* sendSeen returns (its own catch logs a gateway error as a warning and
\* swallows it), then determineIntent is called.
SendSeenRethrows(r) ==
  /\ pc[r] = "sendSeen"
  /\ \E ok \in SeenOutcomes(menu) :
       IF ok THEN /\ Step(r, "determineIntent", local[r], <<"determineIntent">>)
                  /\ UNCHANGED response
       ELSE Fail(r, "WAHA API Error")
  /\ UNCHANGED <<body, store, expiries, clock, isInitialized, actualOpen, ledger, sent, menu>>
SendSeen(r) ==
  /\ pc[r] = "sendSeen"
  /\ \E ok \in SeenOutcomes(menu) :
       StepLog(r, "determineIntent", local[r], <<"determineIntent">>,
               IF ok THEN <<>> ELSE <<"logger.warn">>)
  /\ UNCHANGED <<body, response, store, expiries, clock, isInitialized, actualOpen,
                 ledger, sent, menu>>

\* actualService.init() up to its first await: returns at once when the
\* flag is set, else starts the connection.
CallInit(r, loc) == Step(r, "init", [loc EXCEPT !.lazyInit = Lazy(isInitialized)], <<"init">>)

\* determineIntent returns or throws; the branch is chosen.
DetermineIntent(r) ==
  /\ pc[r] = "determineIntent"
  /\ \E ok \in BOOLEAN, o \in IntentOutputs(menu) :
       IF ~ok \/ ~intentZodSchema(o) THEN Fail(r, "Gemini API Error")
       ELSE /\ IF o.intent \in {"transaction", "query_balance"}
                 THEN CallInit(r, [local[r] EXCEPT !.intent = o])
                 ELSE Step(r, "getAnswer", [local[r] EXCEPT !.intent = o], <<"getAnswer">>)
            /\ UNCHANGED response
  /\ UNCHANGED <<body, store, expiries, clock, isInitialized, actualOpen, ledger, sent, menu>>

\* getAnswer returns or throws.
GetAnswerThenShutdown(r) ==
  /\ pc[r] = "getAnswer"
  /\ Step(r, "sendTextMessage",
          [local[r] EXCEPT !.finalResponse = Reply("answer", <<>>, "answer", <<>>)],
          <<"shutdown", "sendTextMessage">>)
  /\ isInitialized' = FALSE
  /\ UNCHANGED <<body, response, store, expiries, clock, actualOpen, ledger, sent, menu>>
GetAnswer(r) ==
  /\ pc[r] = "getAnswer"
  /\ \E ok \in BOOLEAN :
       IF ~ok THEN Fail(r, "Gemini API Error")
       ELSE /\ Step(r, "sendTextMessage",
                    [local[r] EXCEPT !.finalResponse = Reply("answer", <<>>, "answer", <<>>)],
                    <<"sendTextMessage">>)
            /\ UNCHANGED response
  /\ UNCHANGED <<body, store, expiries, clock, isInitialized, actualOpen, ledger, sent, menu>>

\* sendTextMessage returns or throws; on return the 200 response is sent.
SendTextMessageRetries(r) ==
  /\ pc[r] = "sendTextMessage"
  /\ \E ok \in BOOLEAN :
       IF ~ok THEN /\ Step(r, "sendTextMessage", local[r], <<"sendTextMessage">>)
                   /\ UNCHANGED <<sent, response>>
       ELSE /\ sent' = Append(sent, [to |-> body[r].from, text |-> local[r].finalResponse,
                                     by |-> r])
            /\ Respond(r, "received")
  /\ UNCHANGED <<body, store, expiries, clock, isInitialized, actualOpen, ledger, menu>>
SendTextMessage(r) ==
  /\ pc[r] = "sendTextMessage"
  /\ \E ok \in BOOLEAN :
       IF ~ok THEN Fail(r, "WAHA API Error") /\ UNCHANGED sent
       ELSE /\ sent' = Append(sent, [to |-> body[r].from, text |-> local[r].finalResponse,
                                     by |-> r])
            /\ Respond(r, "received")
  /\ UNCHANGED <<body, store, expiries, clock, isInitialized, actualOpen, ledger, menu>>

\* ---------------------------------------------------------------- time
Tick ==
  /\ clock < MaxClock
  /\ clock' = clock + 1
  /\ UNCHANGED <<pc, body, response, local, calls, store, expiries, isInitialized,
                 actualOpen, ledger, sent, menu, log>>

\* The TTL monitor removes an expired record.
Expire ==
  /\ \E d \in store :
       /\ Expired(d, clock)
       /\ store' = store \ {d}
       /\ expiries' = [expiries EXCEPT ![d.eventId] = @ + 1]
  /\ UNCHANGED <<pc, body, response, local, calls, clock, isInitialized, actualOpen,
                 ledger, sent, menu, log>>

\* ------------------------------------------------------ budgeting branches
Getters(intent) ==
  IF intent = "transaction" THEN <<"getAccounts", "getCategories", "getPayees">>
  ELSE <<"getAccounts", "getCategories">>

\* The wrapper's `await init()` returns: the connection is open and the flag
\* set, and the wrapper goes on to its data call.
LazyInitDone(r, ok) ==
  IF ok
    THEN /\ isInitialized' = TRUE
         /\ actualOpen' = TRUE
         /\ Step(r, pc[r], [local[r] EXCEPT !.lazyInit = FALSE], <<>>)
    ELSE /\ Caught(r, "Actual API Init Error")
         /\ UNCHANGED <<isInitialized, actualOpen>>

\* await actualService.init() returns or throws; then the getters are called
\* together (Promise.all).
InitBudget(r) ==
  /\ pc[r] = "init"
  /\ \E ok \in BOOLEAN :
       IF local[r].lazyInit
         THEN IF ok
                THEN /\ isInitialized' = TRUE
                     /\ actualOpen' = TRUE
                     /\ Step(r, "fetch", [local[r] EXCEPT !.lazyInit = FALSE],
                             Getters(local[r].intent.intent))
                ELSE /\ Caught(r, "Actual API Init Error")
                     /\ UNCHANGED <<isInitialized, actualOpen>>
         ELSE /\ Step(r, "fetch", [local[r] EXCEPT !.lazyInit = Lazy(isInitialized)],
                      Getters(local[r].intent.intent) \o InitCall(isInitialized))
              /\ UNCHANGED <<isInitialized, actualOpen>>
  /\ UNCHANGED <<body, response, store, expiries, clock, ledger, sent, menu>>

\* The getters return or one throws; then the extraction is called.
Fetch(r) ==
  /\ pc[r] = "fetch"
  /\ IF local[r].lazyInit
       THEN \E ok \in BOOLEAN : LazyInitDone(r, ok)
       ELSE /\ \E ok \in Outcomes(actualOpen) :
                 IF ~ok THEN Caught(r, "Actual API Error")
                 ELSE IF local[r].intent.intent = "transaction"
                   THEN Step(r, "processTransaction", local[r], <<"processTransaction">>)
                   ELSE Step(r, "processBalanceQuery", local[r], <<"processBalanceQuery">>)
            /\ UNCHANGED <<isInitialized, actualOpen>>
  /\ UNCHANGED <<body, response, store, expiries, clock, ledger, sent, menu>>

\* actualService.addTransactions(accountId, [tx]) is called.
CallAdd(r, loc, posts) ==
  Step(r, "addTransactions",
       [loc EXCEPT !.pending = posts, !.addCalls = Append(@, posts[1]),
                   !.lazyInit = Lazy(isInitialized)],
       <<"addTransactions">> \o InitCall(isInitialized))

\* processTransaction returns or throws; names are resolved and the first
\* transaction, if any, is posted.
ProcessTransaction(r) ==
  /\ pc[r] = "processTransaction"
  /\ \E ok \in BOOLEAN, o \in TransactionOutputs(menu) :
       IF ~ok THEN Caught(r, "Gemini API Error")
       ELSE IF ~transactionZodSchema(o, Names(BackendAccounts), Names(BackendCategories))
         THEN Rejected(r, o, "Gemini API Error")
       ELSE
         LET loc == [local[r] EXCEPT !.data = o, !.responseJson = o]
             plan == TransactionPlan(o, local[r].intent.transactionDetail, Today(clock),
                                     BackendAccounts, BackendCategories, BackendPayees)
         IN IF plan.threw THEN CaughtAfter(r, loc, "TypeError")
            ELSE IF plan.posts = <<>>
              THEN Finally(r, [loc EXCEPT !.finalResponse = plan.reply])
            ELSE CallAdd(r, loc, plan.posts)
  /\ UNCHANGED <<body, response, store, expiries, clock, isInitialized, actualOpen,
                 ledger, sent, menu>>

\* addTransactions returns or throws; the next transaction is posted, or the
\* reply is the model's message_to_user.
AddTransactions(r) ==
  /\ pc[r] = "addTransactions"
  /\ IF local[r].lazyInit
       THEN /\ \E ok \in BOOLEAN : LazyInitDone(r, ok)
            /\ UNCHANGED ledger
       ELSE /\ \E ok \in Outcomes(actualOpen) :
                 IF ~ok THEN Caught(r, "Actual API Error") /\ UNCHANGED ledger
                 ELSE /\ ledger' = Append(ledger,
                                          [accountId |-> Head(local[r].pending).accountId,
                                           tx |-> Head(local[r].pending).tx, by |-> r])
                      /\ IF Tail(local[r].pending) # <<>>
                           THEN CallAdd(r, local[r], Tail(local[r].pending))
                           ELSE Finally(r, [local[r] EXCEPT
                                  !.pending = <<>>,
                                  !.finalResponse =
                                     Reply("message_to_user", <<>>,
                                           local[r].data.message_to_user, <<>>)])
            /\ UNCHANGED <<isInitialized, actualOpen>>
  /\ UNCHANGED <<body, response, store, expiries, clock, sent, menu>>

Balances(n) == [i \in 1..n |-> "getAccountBalance"]

\* processBalanceQuery returns or throws; the balance or budget calls follow.
ProcessBalanceQuery(r) ==
  /\ pc[r] = "processBalanceQuery"
  /\ \E ok \in BOOLEAN, o \in QueryOutputs(menu) :
       IF ~ok \/ ~balanceQueryZodSchema(o) THEN Caught(r, "Gemini API Error")
       ELSE
         LET loc == [local[r] EXCEPT !.query = o]
             plan == AccountQueryPlan(o, BackendAccounts)
         IN IF o.query_type = "account"
              THEN IF plan.threw THEN CaughtAfter(r, loc, "TypeError")
                   ELSE IF plan.kind = ""
                     THEN Finally(r, [loc EXCEPT !.finalResponse = plan.reply])
                   ELSE Step(r, "getAccountBalance",
                             [loc EXCEPT !.fetch = plan.fetch, !.kind = plan.kind,
                                         !.lazyInit = Lazy(isInitialized)],
                             Balances(Len(plan.fetch)) \o InitCall(isInitialized))
              ELSE Step(r, "getBudgetMonth", [loc EXCEPT !.lazyInit = Lazy(isInitialized)],
                        <<"getBudgetMonth">> \o InitCall(isInitialized))
  /\ UNCHANGED <<body, response, store, expiries, clock, isInitialized, actualOpen,
                 ledger, sent, menu>>

\* The balance calls return or one throws; the reply lists the balances.
GetAccountBalance(r) ==
  /\ pc[r] = "getAccountBalance"
  /\ IF local[r].lazyInit
       THEN \E ok \in BOOLEAN : LazyInitDone(r, ok)
       ELSE /\ \E ok \in Outcomes(actualOpen) :
                 IF ~ok THEN Caught(r, "Actual API Error")
                 ELSE Finally(r, [local[r] EXCEPT
                        !.finalResponse =
                           BalancesReply(local[r].kind, local[r].fetch, BackendAccounts)])
            /\ UNCHANGED <<isInitialized, actualOpen>>
  /\ UNCHANGED <<body, response, store, expiries, clock, ledger, sent, menu>>

\* getBudgetMonth returns or throws; the reply is built from the budget.
GetBudgetMonth(r) ==
  /\ pc[r] = "getBudgetMonth"
  /\ IF local[r].lazyInit
       THEN \E ok \in BOOLEAN : LazyInitDone(r, ok)
       ELSE /\ \E ok \in Outcomes(actualOpen) :
                 LET res == BudgetReply(local[r].query, BackendBudgetMonth) IN
                 IF ~ok THEN Caught(r, "Actual API Error")
                 ELSE IF res.threw THEN Caught(r, "TypeError")
                 ELSE Finally(r, [local[r] EXCEPT !.finalResponse = res.reply])
            /\ UNCHANGED <<isInitialized, actualOpen>>
  /\ UNCHANGED <<body, response, store, expiries, clock, ledger, sent, menu>>

\* actual.shutdown() returns or throws inside actualService.shutdown.
ShutdownClose(r) ==
  /\ pc[r] = "shutdown"
  /\ \E ok \in BOOLEAN :
       IF ok THEN /\ actualOpen' = FALSE
                  /\ Step(r, "shutdown_done", local[r], <<>>)
                  /\ UNCHANGED response
       ELSE /\ Fail(r, "Actual shutdown error")
            /\ UNCHANGED actualOpen
  /\ UNCHANGED <<body, store, expiries, clock, isInitialized, ledger, sent, menu>>

\* actualService.shutdown clears the flag and returns; the finally block
\* ends: a caught error is thrown again, else the reply is sent.
ShutdownDone(r) ==
  /\ pc[r] = "shutdown_done"
  /\ isInitialized' = FALSE
  /\ IF local[r].error # ""
       THEN Fail(r, local[r].error)
       ELSE /\ Step(r, "sendTextMessage", local[r], <<"sendTextMessage">>)
            /\ UNCHANGED response
  /\ UNCHANGED <<body, store, expiries, clock, actualOpen, ledger, sent, menu>>

\* ----------------------------------------------------------- specifications
Handler(r) ==
  \/ FindOne(r) \/ Create(r) \/ SendSeen(r) \/ DetermineIntent(r) \/ GetAnswer(r)
  \/ InitBudget(r) \/ Fetch(r) \/ ProcessTransaction(r) \/ AddTransactions(r)
  \/ ProcessBalanceQuery(r) \/ GetAccountBalance(r) \/ GetBudgetMonth(r)
  \/ ShutdownClose(r) \/ ShutdownDone(r) \/ SendTextMessage(r)

\* One request, the wide menu.
InitOne ==
  /\ pc = [r \in Requests |-> "idle"]
  /\ body = [r \in Requests |-> NoBody]
  /\ response = [r \in Requests |-> "none"]
  /\ local = [r \in Requests |-> NoLocal]
  /\ calls = [r \in Requests |-> <<>>]
  /\ store = {}
  /\ expiries = [e \in EventIds |-> 0]
  /\ clock = 0
  /\ isInitialized = FALSE
  /\ actualOpen = FALSE
  /\ ledger = <<>>
  /\ sent = <<>>
  /\ menu = "wide"
  /\ log = [r \in Requests |-> <<>>]

DeliverOne == Deliver(1)

NextOne == DeliverOne \/ Handler(1) \/ Tick \/ Expire

SpecOne == InitOne /\ [][NextOne]_vars

\* Requests may overlap.
Next == (\E r \in Requests : Deliver(r) \/ Handler(r)) \/ Tick \/ Expire

Spec == Init /\ [][Next]_vars

\* Deliveries do not overlap: a request arrives when no other is in flight.
DeliverAlone(r) == (\A q \in Requests : ~InFlight(q)) /\ Deliver(r)

NextSeq == (\E r \in Requests : DeliverAlone(r) \/ Handler(r)) \/ Tick \/ Expire

SpecSeq == Init /\ [][NextSeq]_vars

\* Every collaborator call eventually returns or throws: a handler that
\* awaits a call is eventually resumed.
Returns == \A r \in Requests : WF_vars(Handler(r))

FairOne == SpecOne /\ WF_vars(Handler(1))
FairSeq == SpecSeq /\ Returns

\* ------------------------------------------------------------------ claims
Count(name, seq) == Cardinality({i \in 1..Len(seq) : seq[i] = name})
SentBy(r) == {i \in 1..Len(sent) : sent[i].by = r}
PostedBy(r) == {i \in 1..Len(ledger) : ledger[i].by = r}
DocsOf(eventId) == {d \in store : d.eventId = eventId}

\* The request got past the idempotency gate: its create succeeded.
PassedGate(r) == InSeq("sendSeen", calls[r])
\* The request's business logic ran: intent classification was called.
Executed(r) == InSeq("determineIntent", calls[r])
SameEvent(r1, r2) ==
  r1 # r2 /\ IsProcessed(body[r1]) /\ IsProcessed(body[r2]) /\ body[r1].id = body[r2].id

\* C1: of two non-overlapping deliveries of one payload.id, when the first
\* was answered "received" and its record has not expired, the second is
\* answered "duplicate_ignored"; the second calls nothing but findOne (no
\* sendSeen or sendTextMessage, no model call, no budgeting call), posts and
\* sends nothing, and the store still holds just the first one's record.
\* (A second delivery whose findOne itself throws is handed to the error
\* handler, with the same absence of calls.)
C1_DuplicateIgnored ==
  \A r1 \in Requests, r2 \in Requests :
    ( /\ SameEvent(r1, r2) /\ r1 < r2
      /\ response[r1] = "received"
      /\ expiries[body[r1].id] = 0
      /\ pc[r2] # "idle" )
    => /\ pc[r2] \in {"findOne", "done", "failed"}
       /\ calls[r2] = <<"findOne">>
       /\ pc[r2] = "done" => response[r2] = "duplicate_ignored"
       /\ pc[r2] = "failed" => local[r2].error = "MongoError"
       /\ SentBy(r2) = {} /\ PostedBy(r2) = {}
       /\ \E d \in store : d.by = r1 /\ DocsOf(body[r1].id) = {d}

C1_Witness ==
  /\ SameEvent(1, 2)
  /\ response[1] = "received" /\ response[2] = "duplicate_ignored"
  /\ expiries[body[1].id] = 0
  /\ SentBy(1) # {}

\* C2 as stated: over non-overlapping deliveries, with records expiring, the
\* business logic runs at most once per event id.
C2_AtMostOnceEver ==
  \A e \in EventIds : Cardinality({r \in Requests : body[r].id = e /\ Executed(r)}) <= 1

\* C2 amended: over non-overlapping deliveries the business logic runs at
\* most once per event id for as long as the id's record has not expired:
\* every further run for the same id follows an expiry of its record.
C2_AtMostOncePerRecord ==
  \A e \in EventIds :
    Cardinality({r \in Requests : body[r].id = e /\ Executed(r)}) <= 1 + expiries[e]

C2_Witness ==
  \E e \in EventIds :
    /\ expiries[e] = 1
    /\ Cardinality({r \in Requests : body[r].id = e /\ Executed(r)}) = 2

\* Both requests missed in findOne and both creates have returned.
Raced(r1, r2) ==
  /\ SameEvent(r1, r2)
  /\ InSeq("create", calls[r1]) /\ InSeq("create", calls[r2])
  /\ pc[r1] # "create" /\ pc[r2] # "create"

\* C3 as stated: when two overlapping requests for one payload.id both miss
\* in findOne before either creates the record, both go on to the business
\* logic (here: unless the store itself was unreachable for its create).
C3_BothExecute ==
  \A r1 \in Requests, r2 \in Requests :
    ( /\ Raced(r1, r2)
      /\ local[r1].error # "MongoError" /\ local[r2].error # "MongoError" )
    => PassedGate(r1) /\ PassedGate(r2)

\* C3 amended: two overlapping requests for one payload.id can both miss in
\* findOne before either creates the record, but the unique index on eventId
\* lets only one create succeed while the record lives: at most one of them
\* gets past the gate, and the other fails with the duplicate-key error (or
\* a store error) without running any business logic.
C3_OnlyOnePassesGate ==
  \A r1 \in Requests, r2 \in Requests :
    ( Raced(r1, r2) /\ expiries[body[r1].id] = 0 /\ PassedGate(r1) )
    => /\ ~PassedGate(r2) /\ ~Executed(r2)
       /\ pc[r2] = "failed"
       /\ local[r2].error \in {"E11000 duplicate key", "MongoError"}
       /\ calls[r2] = <<"findOne", "create">>

C3_Witness ==
  /\ Raced(1, 2)
  /\ PassedGate(1) /\ Executed(1)
  /\ pc[2] = "failed" /\ local[2].error = "E11000 duplicate key"

\* C4: in every step of every interleaving, the store holds at most one
\* record per eventId, and a record in it stays as it is unless the TTL
\* monitor removes it after the retention time, in a step no handler takes.
UniqueEventIds(docs) == \A d1 \in docs, d2 \in docs : d1.eventId = d2.eventId => d1 = d2

C4_RecordsUniqueAndImmutable ==
  [][ /\ UniqueEventIds(store')
      /\ \A d \in store \ store' :
           /\ Expired(d, clock)
           /\ (clock - d.createdAt) * TickSeconds >= SecondsPerDay
           /\ pc' = pc /\ ~HasEvent(store', d.eventId) ]_vars

C4_Witness ==
  \E r \in Requests, q \in Requests :
    /\ SameEvent(r, q)
    /\ pc[r] = "failed" /\ PassedGate(r) /\ \E d \in store : d.by = r
    /\ pc[q] = "failed" /\ local[q].error = "E11000 duplicate key"

\* C5: a request whose event is not "message", or that has no payload or no
\* payload.id, is answered "received" at once; it calls no collaborator and
\* the store, the ledger, the sent messages and the budgeting connection are
\* as they were.
C5_IgnoredEventFrame ==
  [][ \A r \in Requests :
        (pc[r] = "idle" /\ pc'[r] # "idle" /\ ~(body'[r].event = "message"
                                                 /\ body'[r].hasPayload
                                                 /\ body'[r].id # NoId))
        => /\ pc'[r] = "done" /\ response'[r] = "received"
           /\ calls'[r] = <<>>
           /\ UNCHANGED <<store, expiries, ledger, sent, isInitialized, actualOpen>> ]_vars

C5_Witness ==
  /\ IsProcessed(body[1]) /\ response[1] = "received" /\ store # {}
  /\ body[2].event = "message" /\ body[2].hasPayload /\ body[2].id = NoId
  /\ response[2] = "received" /\ calls[2] = <<>>

\* ------------------------------------------------ claims on the branches
BranchBody ==
  {"init", "fetch", "processTransaction", "addTransactions", "processBalanceQuery",
   "getAccountBalance", "getBudgetMonth"}
AfterBranch == {"shutdown", "shutdown_done", "sendTextMessage"}
EnteredBranch(r) == InSeq("init", calls[r])
GenericKinds == {"generic_transaction_error", "generic_balance_error"}

\* C6: a request that failed because a budgeting call or the model's
\* extraction threw inside the transaction or query_balance branch has had
\* the generic apology sent to its sender.
C6_ApologyBeforeFailure ==
  \A r \in Requests :
    ( /\ pc[r] = "failed" /\ EnteredBranch(r)
      /\ local[r].error \in {"Actual API Init Error", "Actual API Error", "Gemini API Error"} )
    => \E i \in SentBy(r) : sent[i].text.kind \in GenericKinds /\ sent[i].to = body[r].from

\* C7: a request that entered the transaction or query_balance branch has
\* called shutdown exactly once when it has left the branch body, on every
\* exit (success, resolution failure, an exception of init, the getters, the
\* extraction or addTransactions), and never before; once that call has
\* returned the connection is closed and isInitialized is false.
C7_ShutdownOnEveryExit ==
  \A r \in Requests :
    EnteredBranch(r) =>
      /\ pc[r] \in BranchBody => Count("shutdown", calls[r]) = 0
      /\ pc[r] \notin BranchBody => Count("shutdown", calls[r]) = 1
      /\ pc[r] = "shutdown_done" => ~actualOpen
      /\ ( \/ pc[r] \in {"sendTextMessage", "done"}
           \/ pc[r] = "failed" /\ local[r].error # "Actual shutdown error" )
         => ~isInitialized /\ ~actualOpen

C7_Witness ==
  \E r \in Requests :
    /\ pc[r] = "failed" /\ local[r].error = "Actual API Error"
    /\ InSeq("addTransactions", calls[r])
    /\ Count("shutdown", calls[r]) = 1
    /\ ~isInitialized /\ ~actualOpen

\* The transaction request has its validated extraction.
Extracted(r) == local[r].intent.intent = "transaction" /\ local[r].data # NoTransaction
IsTransfer(r) == local[r].intent.transactionDetail = "transfer"
SourceIx(r) == AccountByName(BackendAccounts, local[r].data.source_account_name)
DestIx(r) == AccountByName(BackendAccounts, local[r].data.payee)
CategoryIx(r) == CategoryByName(BackendCategories, local[r].data.category)
PayeeIx(accountIx) == TransferPayeeOf(BackendPayees, BackendAccounts[accountIx].id)

\* Some name or transfer payee the transaction needs is not among the
\* fetched entities.
Unresolved(r) ==
  \/ SourceIx(r) = 0
  \/ /\ IsTransfer(r) /\ local[r].data.payee # Null
     /\ (DestIx(r) = 0 \/ PayeeIx(DestIx(r)) = 0 \/ PayeeIx(SourceIx(r)) = 0)
  \/ ~IsTransfer(r) /\ CategoryIx(r) = 0

ResolutionKinds ==
  {"account_not_found", "destination_account_not_found", "transfer_payee_not_found",
   "category_not_found"}

\* The reply names an entity that is indeed unmatched.
NamesUnmatched(r, reply) ==
  \/ /\ reply.kind = "account_not_found"
     /\ reply.name = local[r].data.source_account_name /\ SourceIx(r) = 0
  \/ /\ reply.kind = "destination_account_not_found"
     /\ reply.name = local[r].data.payee /\ DestIx(r) = 0
  \/ /\ reply.kind = "transfer_payee_not_found"
     /\ \E ix \in {SourceIx(r), DestIx(r)} :
          reply.name = BackendAccounts[ix].name /\ PayeeIx(ix) = 0
  \/ /\ reply.kind = "category_not_found"
     /\ reply.name = local[r].data.category /\ CategoryIx(r) = 0

\* C8 as stated: whenever the model's extraction names a source account or,
\* for an income or expense, a category that is not among the fetched
\* entities, the branch ends without an exception, with no addTransactions
\* call and with a reply naming that entity.
C8_EveryUnmatchedNameAbsorbed ==
  \A r \in Requests :
    LET json == local[r].responseJson
        noAccount == AccountByName(BackendAccounts, json.source_account_name) = 0
        noCategory == /\ ~IsTransfer(r)
                      /\ CategoryByName(BackendCategories, json.category) = 0
    IN ( /\ local[r].intent.intent = "transaction" /\ json # NoTransaction
         /\ pc[r] \in AfterBranch
         /\ noAccount \/ noCategory )
       => /\ local[r].error = ""
          /\ local[r].addCalls = <<>>
          /\ \/ /\ noAccount
                /\ local[r].finalResponse =
                     Reply("account_not_found", json.source_account_name, "", <<>>)
             \/ /\ ~noAccount
                /\ local[r].finalResponse =
                     Reply("category_not_found", json.category, "", <<>>)

C8_State ==
  /\ \A r \in Requests :
       Extracted(r) =>
         /\ Unresolved(r) =>
              /\ pc[r] \in AfterBranch
              /\ local[r].error = ""
              /\ local[r].addCalls = <<>> /\ ~InSeq("addTransactions", calls[r])
              /\ PostedBy(r) = {}
              /\ NamesUnmatched(r, local[r].finalResponse)
         /\ ~Unresolved(r) => local[r].finalResponse.kind \notin ResolutionKinds
  /\ \A i \in 1..Len(sent) :
       (sent[i].text.kind \in ResolutionKinds /\ InSeq("processTransaction", calls[sent[i].by]))
       => /\ sent[i].to = body[sent[i].by].from
          /\ response[sent[i].by] = "received"
          /\ PostedBy(sent[i].by) = {}
          /\ ~InSeq("addTransactions", calls[sent[i].by])

\* What holds of C8: in the transaction branch every lookup that fails (source
\* account, transfer destination, either transfer payee, category) ends the branch
\* without an exception and without an addTransactions call, with a reply
\* that names the unmatched entity; that reply goes to the sender and the
\* request is answered "received". Only shutdown or sendTextMessage throwing
\* afterwards can still fail such a request.
C8_ResolutionFailureAbsorbed ==
  [][ /\ C8_State'
      /\ \A r \in Requests :
           ( /\ Extracted(r) /\ Unresolved(r) /\ pc'[r] # pc[r] )
           => \/ pc'[r] \in AfterBranch /\ local'[r].finalResponse = local[r].finalResponse
              \/ /\ pc'[r] = "done" /\ response'[r] = "received"
                 /\ sent' = Append(sent, [to |-> body[r].from,
                                          text |-> local[r].finalResponse, by |-> r])
              \/ /\ pc'[r] = "failed"
                 /\ local'[r].error \in {"Actual shutdown error", "WAHA API Error"} ]_vars

C8_Witness ==
  \E i \in 1..Len(sent) :
    /\ sent[i].text.kind = "transfer_payee_not_found"
    /\ sent[i].text.name = Old
    /\ response[sent[i].by] = "received"
    /\ ledger = <<>>

\* The amount the model extracted parses to a number.
Parsed(r) == ~parseFloat(local[r].data.amount).nan
Cents(r) == AbsInt(parseFloat(local[r].data.amount).v * CentsPerUnit)
LedgerOf(r) == SelectSeq(ledger, LAMBDA e : e.by = r)
Entry(post, r) == [accountId |-> post.accountId, tx |-> post.tx, by |-> r]

\* A transfer whose source, destination and both transfer payees resolve.
ResolvedTransfer(r) ==
  /\ Extracted(r) /\ IsTransfer(r) /\ local[r].data.payee # Null
  /\ ~Unresolved(r)

IsWithdrawal(r, post) ==
  /\ post.accountId = BackendAccounts[SourceIx(r)].id
  /\ post.tx.amount = Num(-Cents(r))
  /\ post.tx.payee = BackendPayees[PayeeIx(DestIx(r))].id
  /\ post.tx.cleared = FALSE

IsDeposit(r, post) ==
  /\ post.accountId = BackendAccounts[DestIx(r)].id
  /\ post.tx.amount = Num(Cents(r))
  /\ post.tx.payee = BackendPayees[PayeeIx(SourceIx(r))].id
  /\ post.tx.cleared = FALSE

C9_State ==
  \A r \in Requests :
    (ResolvedTransfer(r) /\ Parsed(r)) =>
      LET made == local[r].addCalls IN
      /\ Len(made) \in {1, 2}
      /\ Count("addTransactions", calls[r]) = Len(made)
      /\ IsWithdrawal(r, made[1])
      /\ Len(made) = 2 =>
           /\ IsDeposit(r, made[2])
           /\ made[1].tx.amount.v + made[2].tx.amount.v = 0
           /\ made[1].tx.date = made[2].tx.date
      \* the second call is made as soon as the first has returned
      /\ (pc[r] \in AfterBranch /\ local[r].error = "") =>
           /\ Len(made) = 2
           /\ LedgerOf(r) = <<Entry(made[1], r), Entry(made[2], r)>>
      /\ Len(LedgerOf(r)) >= 1 => Len(made) = 2

IncomeOrExpense(r) ==
  Extracted(r) /\ local[r].intent.transactionDetail \in {"income", "expense"}

C10_State ==
  \A r \in Requests :
    IncomeOrExpense(r) =>
      LET made == local[r].addCalls
          data == local[r].data
          income == local[r].intent.transactionDetail = "income"
      IN
      /\ ~Unresolved(r)
      /\ Len(made) = 1
      /\ Count("addTransactions", calls[r]) = 1
      /\ made[1].accountId = BackendAccounts[SourceIx(r)].id
      /\ Parsed(r) => made[1].tx.amount = Num(IF income THEN Cents(r) ELSE -Cents(r))
      /\ (income /\ data.amount = "5000000") => made[1].tx.amount = Num(500000000)
      /\ made[1].tx.category = BackendCategories[CategoryIx(r)].id
      /\ made[1].tx.notes = [text |-> data.description, name |-> <<>>]
      /\ made[1].tx.payee_name = data.payee
      /\ made[1].tx.cleared = FALSE
      /\ (pc[r] \in AfterBranch /\ local[r].error = "") => LedgerOf(r) = <<Entry(made[1], r)>>
      /\ local[r].error # "" => LedgerOf(r) = <<>>

KopiPosted(r) ==
  /\ Extracted(r) /\ local[r].intent.transactionDetail = "expense"
  /\ local[r].data.amount = <<"2", "0", "0", "0", "0">>
  /\ local[r].data.source_account_name = Cash
  /\ local[r].data.category = Food
  /\ pc[r] \in AfterBranch /\ local[r].error = ""

KopiLedger(r, minorUnits) ==
  /\ Len(LedgerOf(r)) = 1
  /\ LedgerOf(r)[1].accountId = "acc1"
  /\ LedgerOf(r)[1].tx.amount = Num(minorUnits)
  /\ LedgerOf(r)[1].tx.category = "cat1"

ModelCalls == {"determineIntent", "processTransaction", "processBalanceQuery", "getAnswer"}
ErrorEntries(r) == SelectSeq(log[r], LAMBDA e : e \in {"console.error", "logger.error"})

\* A model call of the request has thrown: the handler is unwinding with its
\* error, or the request has failed with it.
ModelCallThrew(r) == local[r].error = "Gemini API Error"

NeverRetried(r) == \A c \in ModelCalls : Count(c, calls[r]) <= 1

\* C12 as stated: a request in which a model call threw has failed, has made
\* no model call twice, and has exactly one error entry in the log.
C12_LoggedExactlyOnce ==
  \A r \in Requests :
    (ModelCallThrew(r) /\ pc[r] = "failed")
    => /\ NeverRetried(r)
       /\ response[r] = "error"
       /\ Len(ErrorEntries(r)) = 1

\* C12: a model call that throws is not made again in that request; the
\* request goes on only to release the budgeting connection and then fails,
\* never answering "received"; the request-level handler logs the error once,
\* and for processTransaction and processBalanceQuery the branch's catch
\* block has logged it once before that.
C12_NotRetriedFailsLogged ==
  [][ \A r \in Requests :
        /\ NeverRetried(r)'
        /\ (ModelCallThrew(r) /\ pc'[r] # pc[r])
           => /\ pc'[r] \in {"shutdown_done", "failed"}
              /\ calls'[r] = calls[r]
              /\ response'[r] \in {"none", "error"}
        /\ (ModelCallThrew(r)' /\ pc'[r] = "failed")
           => /\ response'[r] = "error"
              /\ ErrorEntries(r)' = IF EnteredBranch(r)'
                                      THEN <<"console.error", "logger.error">>
                                      ELSE <<"logger.error">> ]_vars

C12_Witness ==
  \E r \in Requests :
    /\ ModelCallThrew(r) /\ pc[r] = "failed"
    /\ InSeq("processBalanceQuery", calls[r])
    /\ ErrorEntries(r) = <<"console.error", "logger.error">>

\* The replies each branch can assign to finalResponse.
BranchReplies(intent) ==
  IF intent = "question" THEN {"answer"}
  ELSE IF intent = "transaction" THEN ResolutionKinds \cup {"message_to_user"}
  ELSE {"all_account_balances", "account_balance", "account_not_found",
        "category_budget", "budget_category_not_found", "budget_summary"}

\* C13: a processed message event whose branch has ended without an
\* exception makes exactly one sendTextMessage call, to payload.from, with the
\* finalResponse its branch assigned, which is never unset; no request sends
\* a second message, and a request answered "received" has sent exactly one.
C13_OneReplyOfTheBranch ==
  [][ \A r \in Requests :
        /\ pc'[r] = "sendTextMessage"
           => /\ Count("sendTextMessage", calls'[r]) = 1
              /\ local'[r].error = ""
              /\ local'[r].finalResponse.kind \in BranchReplies(local'[r].intent.intent)
              /\ local'[r].finalResponse # UndefinedReply
        /\ (pc[r] = "sendTextMessage" /\ pc'[r] = "done")
           => /\ sent' = Append(sent, [to |-> body[r].from,
                                       text |-> local[r].finalResponse, by |-> r])
              /\ response'[r] = "received"
        /\ Cardinality(SentBy(r))' <= 1
        /\ Count("sendTextMessage", calls'[r]) <= 1
        /\ (IsProcessed(body'[r]) /\ response'[r] = "received")
           => Cardinality(SentBy(r))' = 1
        /\ (pc[r] # "sendTextMessage" \/ pc'[r] # "done") => sent' = sent \/ pc'[r] = pc[r] ]_vars

C13_Witness ==
  \E r \in Requests :
    /\ response[r] = "received" /\ IsProcessed(body[r])
    /\ Count("sendTextMessage", calls[r]) = 1
    /\ \E i \in SentBy(r) : sent[i].text.kind = "budget_summary" /\ sent[i].to = body[r].from

\* The request asks for the balance of all accounts.
AsksAllBalances(r) ==
  /\ local[r].query.query_type = "account"
  /\ local[r].query.name # Null
  /\ toLowerCase(local[r].query.name) = <<"a", "l", "l">>

OpenIndices == {i \in 1..Len(BackendAccounts) : ~BackendAccounts[i].closed}

\* Balance / 100 in the currency format.
Currency(balance) ==
  [negative |-> balance < 0, units |-> AbsInt(balance) \div 100,
   decimals |-> AbsInt(balance) % 100]

\* One line per open account, in account order.
OpenAccountLines(lines, fetched) ==
  /\ Len(lines) = Cardinality(OpenIndices)
  /\ Len(fetched) = Len(lines)
  /\ \A k \in 1..Len(fetched) :
       /\ fetched[k] \in OpenIndices
       /\ \A j \in 1..Len(fetched) : j < k => fetched[j] < fetched[k]
       /\ ~lines[k].heading
       /\ lines[k].name = BackendAccounts[fetched[k]].name
       /\ lines[k].amount = Currency(BackendAccounts[fetched[k]].balance)

\* C14: a balance query for account "all" (any letter case) calls
\* getAccountBalance once for each open account and for no closed one, and
\* its reply has, under the heading, exactly one line per open account in
\* account order with that account's balance / 100 in currency format.
C14_AllOpenAccounts ==
  /\ \A r \in Requests :
       AsksAllBalances(r) =>
         /\ pc[r] \in {"getAccountBalance"} \cup AfterBranch
         /\ Count("getAccountBalance", calls[r]) = Cardinality(OpenIndices)
         /\ Len(local[r].fetch) = Cardinality(OpenIndices)
         /\ \A k \in 1..Len(local[r].fetch) : local[r].fetch[k] \in OpenIndices
         /\ (pc[r] \in AfterBranch /\ local[r].error = "")
            => /\ local[r].finalResponse.kind = "all_account_balances"
               /\ OpenAccountLines(local[r].finalResponse.lines, local[r].fetch)
  /\ \A i \in 1..Len(sent) :
       sent[i].text.kind = "all_account_balances"
       => /\ Len(sent[i].text.lines) = Cardinality(OpenIndices)
          /\ \A k \in 1..Len(sent[i].text.lines) :
               \E a \in OpenIndices : sent[i].text.lines[k].name = BackendAccounts[a].name

C14_Witness ==
  \E i \in 1..Len(sent) :
    /\ sent[i].text.kind = "all_account_balances"
    /\ Len(sent[i].text.lines) = 3
    /\ sent[i].text.lines[2] =
         [heading |-> FALSE, group |-> "", name |-> Gopay,
          amount |-> [negative |-> TRUE, units |-> 25, decimals |-> 50]]
    /\ Count("getAccountBalance", calls[sent[i].by]) = 3
    /\ \E a \in 1..Len(BackendAccounts) : BackendAccounts[a].closed

\* The categories of the month's budget, over all its category groups.
BudgetCategories == FlatCategories(BackendBudgetMonth.categoryGroups, 1)

\* The request asks for the budget of a category of the month's budget.
AsksCategoryBudget(r) ==
  /\ local[r].query.query_type \in {"budget", "summary"}
  /\ local[r].query.name # Null
  /\ toLowerCase(local[r].query.name) # <<"a", "l", "l">>
  /\ \E c \in 1..Len(BudgetCategories) :
       toLowerCase(BudgetCategories[c].name) = toLowerCase(local[r].query.name)

\* C15 as stated: a budget query naming a category of the month's budget,
\* once the budgeting calls have returned, ends its branch without an
\* exception and with a reply stating that category's budgeted, spent (as
\* absolute value) and remaining amounts.
C15_CategoryBudgetReplied ==
  \A r \in Requests :
    ( /\ AsksCategoryBudget(r) /\ pc[r] \in AfterBranch
      /\ local[r].error \notin {"Actual API Error", "Actual API Init Error"} )
    => /\ local[r].error = ""
       /\ local[r].finalResponse.kind = "category_budget"
       /\ \E c \in 1..Len(BudgetCategories) :
            /\ local[r].finalResponse.name = BudgetCategories[c].name
            /\ local[r].finalResponse.lines =
                 << Line(FALSE, "Budgeted", <<>>, Currency(BudgetCategories[c].budgeted)),
                    Line(FALSE, "Spent", <<>>, Currency(AbsInt(BudgetCategories[c].spent))),
                    Line(FALSE, "Remaining", <<>>, Currency(BudgetCategories[c].balance)) >>

C15_Witness ==
  \E r \in Requests :
    /\ AsksCategoryBudget(r) /\ pc[r] = "shutdown"
    /\ local[r].error = "TypeError"
    /\ local[r].finalResponse.kind = "generic_balance_error"

BudgetingCalls ==
  {"init", "getAccounts", "getCategories", "getPayees", "getAccountBalance",
   "getBudgetMonth", "addTransactions", "shutdown"}

IsQuestion(r) == InSeq("getAnswer", calls[r])

\* C16: a request classified as a question makes no budgeting call, each of
\* its steps leaves the connection flag, the connection and the ledger as
\* they were, and what it sends is the text getAnswer returned.
C16_QuestionLeavesBudgetAlone ==
  [][ \A r \in Requests :
        /\ IsQuestion(r)' => \A i \in 1..Len(calls'[r]) : calls'[r][i] \notin BudgetingCalls
        /\ (IsQuestion(r)' /\ pc'[r] # pc[r])
           => /\ isInitialized' = isInitialized
              /\ actualOpen' = actualOpen
              /\ ledger' = ledger
        /\ (IsQuestion(r) /\ pc[r] = "sendTextMessage" /\ pc'[r] = "done")
           => sent' = Append(sent, [to |-> body[r].from,
                                    text |-> Reply("answer", <<>>, "answer", <<>>),
                                    by |-> r]) ]_vars

C16_Witness ==
  \E r \in Requests :
    /\ IsQuestion(r) /\ response[r] = "received"
    /\ isInitialized
    /\ \E i \in SentBy(r) : sent[i].text.kind = "answer"

\* The gateway rejected the request's sendSeen call.
SeenFailed(r) == InSeq("logger.warn", log[r])

\* C17: whatever the gateway answers to sendSeen, the handler goes on to
\* determineIntent without responding; a request whose sendSeen failed has
\* a warning in the log and no error from it, and has made the
\* determineIntent call.
C17_SeenFailureNotFatal ==
  [][ \A r \in Requests :
        /\ (pc[r] = "sendSeen" /\ pc'[r] # pc[r])
           => /\ pc'[r] = "determineIntent"
              /\ calls'[r] = Append(calls[r], "determineIntent")
              /\ response'[r] = "none"
              /\ ErrorEntries(r)' = <<>>
        /\ SeenFailed(r)' => Executed(r)' ]_vars

\* A request whose sendSeen failed has posted its transaction, sent its
\* reply and been answered "received".
C17_Witness ==
  \E r \in Requests :
    /\ SeenFailed(r) /\ response[r] = "received"
    /\ InSeq("processTransaction", calls[r])
    /\ Len(LedgerOf(r)) = 1
    /\ Cardinality(SentBy(r)) = 1

\* The calls of the gate itself; every other call is a side effect of the
\* business logic.
GateCalls == {"findOne", "create"}
HasSideEffect(r) == \E i \in 1..Len(calls[r]) : calls[r][i] \notin GateCalls

\* C18: a request makes no call other than findOne and create, sends no
\* message and posts no transaction before its create call has returned with
\* the record stored; sendSeen is the first call after it; and a request
\* whose findOne or create threw has made no other call at all.
C18_RecordBeforeSideEffects ==
  [][ \A r \in Requests :
        /\ HasSideEffect(r)'
           => /\ Len(calls'[r]) >= 3
              /\ calls'[r][1] = "findOne" /\ calls'[r][2] = "create"
              /\ calls'[r][3] = "sendSeen"
              /\ pc'[r] \notin {"idle", "findOne", "create"}
        /\ ~HasSideEffect(r)' => SentBy(r)' = {} /\ PostedBy(r)' = {} /\ log'[r] \in {<<>>, ErrorHandlerLog}
        /\ (~HasSideEffect(r) /\ HasSideEffect(r)')
           => /\ pc[r] = "create" /\ pc'[r] = "sendSeen"
              /\ ~HasEvent(store, body[r].id)
              /\ \E d \in store' : d.eventId = body[r].id /\ d.by = r
        /\ (pc[r] = "create" /\ pc'[r] = "failed")
           => /\ calls'[r] = <<"findOne", "create">>
              /\ store' = store /\ sent' = sent /\ ledger' = ledger ]_vars

C18_Witness ==
  \E r1, r2 \in Requests :
    /\ pc[r1] = "failed" /\ local[r1].error = "E11000 duplicate key"
    /\ calls[r1] = <<"findOne", "create">>
    /\ SentBy(r1) = {} /\ PostedBy(r1) = {}
    /\ HasSideEffect(r2) /\ response[r2] = "received"

\* A validated transfer whose source account resolves and whose destination
\* name is given.
TransferFromKnownSource(r) ==
  /\ Extracted(r) /\ IsTransfer(r) /\ local[r].data.payee # Null
  /\ SourceIx(r) # 0

\* The first lookup that fails, in the order destination account,
\* destination transfer payee, source transfer payee: the reply naming it.
FirstFailure(r) ==
  IF DestIx(r) = 0
    THEN Reply("destination_account_not_found", local[r].data.payee, "", <<>>)
  ELSE IF PayeeIx(DestIx(r)) = 0
    THEN Reply("transfer_payee_not_found", BackendAccounts[DestIx(r)].name, "", <<>>)
  ELSE Reply("transfer_payee_not_found", BackendAccounts[SourceIx(r)].name, "", <<>>)

\* C19: for a transfer whose source account resolves, when some lookup fails
\* the reply names only the first failing one in the order destination
\* account, destination transfer payee, source transfer payee, and no
\* transaction is posted.
C19_LookupPrecedence ==
  \A r \in Requests :
    (TransferFromKnownSource(r) /\ Unresolved(r))
    => /\ local[r].finalResponse = FirstFailure(r)
       /\ local[r].addCalls = <<>>
       /\ PostedBy(r) = {}
       /\ ~InSeq("addTransactions", calls[r])

\* Both transfer payees are missing: the reply names the destination's.
C19_Witness ==
  \E r \in Requests :
    /\ TransferFromKnownSource(r) /\ DestIx(r) # 0
    /\ PayeeIx(DestIx(r)) = 0 /\ PayeeIx(SourceIx(r)) = 0
    /\ DestIx(r) # SourceIx(r)
    /\ pc[r] = "sendTextMessage"
    /\ local[r].finalResponse.name = BackendAccounts[DestIx(r)].name
    /\ ledger = <<>>

\* Two strings are equal up to letter case: same length, and at each
\* position the same character or the two cases of one letter.
SameLetter(a, b) ==
  a = b \/ \E k \in 1..Len(UpperChars) : {a, b} = {UpperChars[k], LowerChars[k]}
EqualIgnoringCase(s, t) ==
  Len(s) = Len(t) /\ \A i \in 1..Len(s) : SameLetter(s[i], t[i])

\* The first entity, in backend order, whose name equals the given one up to
\* letter case; 0 if there is none.
FirstMatch(entities, name) ==
  LET m == {i \in 1..Len(entities) : EqualIgnoringCase(entities[i].name, name)}
  IN IF m = {} THEN 0 ELSE CHOOSE i \in m : \A j \in m : i <= j

AsksOneBalance(r) ==
  /\ local[r].query.query_type = "account"
  /\ local[r].query.name # Null
  /\ toLowerCase(local[r].query.name) # <<"a", "l", "l">>

NullAccountQuery(r) ==
  local[r].query.query_type = "account" /\ local[r].query.name = Null
NullPayeeTransfer(r) ==
  Extracted(r) /\ IsTransfer(r) /\ local[r].data.payee = Null /\ SourceIx(r) # 0

\* C21 as stated: an account query whose name is null, and a transfer whose
\* payee is null, end their branch without an exception and with the
\* not-found reply.
C21_NullIsNotFound ==
  \A r \in Requests :
    /\ (NullAccountQuery(r) /\ pc[r] \in AfterBranch)
       => /\ local[r].error = ""
          /\ local[r].finalResponse.kind = "account_not_found"
    /\ (NullPayeeTransfer(r) /\ pc[r] \in AfterBranch)
       => /\ local[r].error = ""
          /\ local[r].finalResponse.kind = "destination_account_not_found"

C21_Witness ==
  \E r \in Requests :
    /\ NullPayeeTransfer(r) /\ pc[r] = "shutdown"
    /\ local[r].error = "TypeError"
    /\ local[r].finalResponse.kind = "generic_transaction_error"

\* The request asks for the summary of the month's budget.
AsksSummary(r) ==
  /\ local[r].query.query_type \in {"budget", "summary"}
  /\ \/ local[r].query.name = Null
     \/ toLowerCase(local[r].query.name) = <<"a", "l", "l">>

Groups == BackendBudgetMonth.categoryGroups
ExpenseGroups == {g \in 1..Len(Groups) : ~Groups[g].is_income}

\* The lines are, for each non-income group in order, its heading followed
\* by one line per category with its remaining balance, and nothing else.
IsSummary(lines) ==
  /\ \A g \in ExpenseGroups :
       /\ Cardinality({k \in 1..Len(lines) :
                         lines[k].heading /\ lines[k].group = Groups[g].name}) = 1
       /\ \A c \in 1..Len(Groups[g].categories) :
            Cardinality({k \in 1..Len(lines) :
                           /\ ~lines[k].heading
                           /\ lines[k].group = Groups[g].name
                           /\ lines[k].name = Groups[g].categories[c].name
                           /\ lines[k].amount = Currency(Groups[g].categories[c].balance)}) = 1
  /\ \A k \in 1..Len(lines) :
       /\ \E g \in ExpenseGroups :
            /\ lines[k].group = Groups[g].name
            /\ lines[k].heading
               \/ \E c \in 1..Len(Groups[g].categories) :
                    lines[k].name = Groups[g].categories[c].name
       /\ ~lines[k].heading
          => \E h \in 1..(k - 1) :
               /\ lines[h].heading /\ lines[h].group = lines[k].group
               /\ \A j \in (h + 1)..(k - 1) : ~lines[j].heading
  /\ Len(lines) = Cardinality(ExpenseGroups)
                  + Cardinality({gc \in ExpenseGroups \X (1..Len(lines)) :
                                   gc[2] <= Len(Groups[gc[1]].categories)})

\* C22: a budget or summary query without a name, or with the name "all" in
\* any letter case, makes no getAccountBalance or addTransactions call, and
\* its reply lists every category of every non-income group with its
\* remaining balance under that group's heading, and no income category.
C22_SummaryOfExpenseGroups ==
  /\ \A r \in Requests :
       AsksSummary(r) =>
         /\ ~InSeq("getAccountBalance", calls[r]) /\ ~InSeq("addTransactions", calls[r])
         /\ PostedBy(r) = {}
         /\ (pc[r] \in AfterBranch /\ local[r].error = "")
            => /\ local[r].finalResponse.kind = "budget_summary"
               /\ IsSummary(local[r].finalResponse.lines)
  /\ \A i \in 1..Len(sent) :
       sent[i].text.kind = "budget_summary" => IsSummary(sent[i].text.lines)

C22_Witness ==
  \E i \in 1..Len(sent) :
    /\ sent[i].text.kind = "budget_summary"
    /\ Len(sent[i].text.lines) = 5
    /\ sent[i].text.lines[5].name = <<"F", "u", "n", "d">>
    /\ response[sent[i].by] = "received"
    /\ \E g \in 1..Len(Groups) : Groups[g].is_income

\* The request failed after its idempotency record had been created.
FailedAfterRecord(r) == pc[r] = "failed" /\ PassedGate(r)

C23_State ==
  \A r1 \in Requests, r2 \in Requests :
    ( /\ SameEvent(r1, r2) /\ r1 < r2
      /\ FailedAfterRecord(r1)
      /\ expiries[body[r1].id] = 0
      /\ pc[r2] # "idle" )
    => /\ \E d \in store : d.by = r1 /\ DocsOf(body[r1].id) = {d}
       /\ pc[r2] \in {"findOne", "done", "failed"}
       /\ calls[r2] = <<"findOne">>
       /\ pc[r2] = "done" => response[r2] = "duplicate_ignored"
       /\ pc[r2] = "failed" => local[r2].error = "MongoError"
       /\ SentBy(r2) = {} /\ PostedBy(r2) = {}
       /\ \A i \in 1..Len(ledger) : SameEvent(ledger[i].by, r1) => ledger[i].by = r1
       /\ \A i \in 1..Len(sent) : SameEvent(sent[i].by, r1) => sent[i].by = r1

\* C23: a record is removed only by the TTL index, never by the failure of
\* its request; while the record of a request that failed after creating it
\* has not expired, a later delivery of the same id calls nothing but
\* findOne, is answered "duplicate_ignored" (or fails in findOne itself) and
\* posts and sends nothing, so what the failed request did not post or send
\* stays unposted and unsent.
C23_FailedEventStaysRecorded ==
  [][ /\ C23_State'
      /\ \A d \in store : d \notin store' => Expired(d, clock) /\ clock' = clock
      /\ \A r \in Requests :
           (pc[r] # "failed" /\ pc'[r] = "failed") => store' = store ]_vars

\* The first delivery failed in sendTextMessage; the second is ignored and
\* the reply is never sent.
C23_Witness ==
  /\ SameEvent(1, 2)
  /\ FailedAfterRecord(1) /\ local[1].error = "WAHA API Error"
  /\ response[2] = "duplicate_ignored"
  /\ expiries[body[1].id] = 0
  /\ sent = <<>>

\* The ledger entries of a transfer: on the source account, and on the
\* destination account.
OnSource(r, e) == e.accountId = BackendAccounts[SourceIx(r)].id /\ e.tx.category = Absent
OnDestination(r, e) == e.accountId = BackendAccounts[DestIx(r)].id /\ e.tx.category = Absent

\* The second addTransactions call of the request's transfer throws.
SecondAddFails(r) ==
  /\ pc[r] = "addTransactions" /\ Len(local[r].addCalls) = 2
  /\ local'[r].error = "Actual API Error"

\* C24: of a transfer, the ledger holds nothing, the withdrawal alone, or
\* the withdrawal followed by the deposit, and the deposit call is made only
\* once the withdrawal is in the ledger. Nothing posted is taken back: when
\* the second addTransactions call throws, the withdrawal stays, and the
\* request goes on only to the shutdown and fails, sending no reply.
C24_WithdrawalThenDeposit ==
  [][ /\ \A r \in Requests :
           (ResolvedTransfer(r) /\ DestIx(r) # SourceIx(r))'
           => /\ Len(LedgerOf(r))' <= 2
              /\ Len(LedgerOf(r))' >= 1 => OnSource(r, LedgerOf(r)[1])'
              /\ Len(LedgerOf(r))' = 2 => OnDestination(r, LedgerOf(r)[2])'
              /\ Len(local'[r].addCalls) = 2
                 => /\ Len(LedgerOf(r))' >= 1
                    /\ OnDestination(r, local[r].addCalls[2])'
      /\ \E k \in 0..1 : SubSeq(ledger', 1, Len(ledger)) = ledger /\ Len(ledger') = Len(ledger) + k
      /\ \A r \in Requests :
           /\ SecondAddFails(r)
              => /\ ledger' = ledger /\ Len(LedgerOf(r)) = 1
                 /\ OnSource(r, LedgerOf(r)[1])
                 /\ pc'[r] = "shutdown"
           /\ (local[r].error # "" /\ pc'[r] # pc[r])
              => /\ pc'[r] \in {"shutdown_done", "failed"}
                 /\ ledger' = ledger /\ sent' = sent
           /\ pc'[r] = "failed" => SentBy(r)' = {} ]_vars

\* The request failed in its second addTransactions call: the withdrawal is
\* in the ledger without the deposit, and nothing was sent.
C24_Witness ==
  \E r \in Requests :
    /\ pc[r] = "failed" /\ local[r].error = "Actual API Error"
    /\ Count("addTransactions", calls[r]) = 2
    /\ Len(LedgerOf(r)) = 1
    /\ LedgerOf(r)[1].tx.category = Absent /\ LedgerOf(r)[1].tx.amount.v < 0
    /\ SentBy(r) = {}

\* The budgeting data calls, and the step in which a request issues one.
DataCalls ==
  {"getAccounts", "getCategories", "getPayees", "getAccountBalance", "getBudgetMonth",
   "addTransactions"}
IssuesDataCall(r) ==
  \E i \in (Len(calls[r]) + 1)..Len(calls'[r]) : calls'[r][i] \in DataCalls
AwaitsDataCall(r) == pc[r] \in {"fetch", "addTransactions", "getAccountBalance", "getBudgetMonth"}

\* C25: whenever a request issues a budgeting data call, the connection is
\* open and the flag isInitialized is set: no other request has shut it down
\* or is shutting it down.
C25_ConnectionUsableAtEveryDataCall ==
  [][ \A r \in Requests : IssuesDataCall(r) => (isInitialized /\ actualOpen)' ]_vars

\* Two requests with distinct event ids: one waits for a data call it issued
\* and has not called shutdown, while the other's shutdown has closed the
\* connection.
C25_Witness ==
  \E r, q \in Requests :
    /\ r # q /\ body[r].id # body[q].id
    /\ AwaitsDataCall(r) /\ Count("shutdown", calls[r]) = 0
    /\ Count("init", calls[q]) >= 1 /\ Count("shutdown", calls[q]) = 1
    /\ pc[q] \in {"shutdown_done", "sendTextMessage", "done", "failed"}
    /\ ~actualOpen

\* How far a handler is: the places in the order the code goes through them.
Rank(place) ==
  CASE place = "idle" -> 0
    [] place = "findOne" -> 1
    [] place = "create" -> 2
    [] place = "sendSeen" -> 3
    [] place = "determineIntent" -> 4
    [] place \in {"getAnswer", "init"} -> 5
    [] place = "fetch" -> 6
    [] place \in {"processTransaction", "processBalanceQuery"} -> 7
    [] place \in {"addTransactions", "getAccountBalance", "getBudgetMonth"} -> 8
    [] place = "shutdown" -> 9
    [] place = "shutdown_done" -> 10
    [] place = "sendTextMessage" -> 11
    [] OTHER -> 12

\* The one outcome of a finished invocation: a 200 response and no error, or
\* one error at the request-level handler and no 200 response.
Outcome(r) ==
  IF pc[r] = "done"
    THEN /\ response[r] \in {"received", "duplicate_ignored"}
         /\ Count("logger.error", log[r]) = 0
    ELSE /\ response[r] = "error"
         /\ Count("logger.error", log[r]) = 1

\* A step of the handler goes forward: to a later place, or at the same
\* place from the wrapper's init to its data call, or from the first posting
\* to the second.
Forward(r) ==
  \/ Rank(pc'[r]) > Rank(pc[r])
  \/ /\ pc'[r] = pc[r]
     /\ \/ local[r].lazyInit /\ ~local'[r].lazyInit
        \/ Len(local'[r].addCalls) > Len(local[r].addCalls)

\* C26: an invocation that has started eventually finishes, with a 200
\* response (received or duplicate_ignored) or with one error at the
\* request-level handler; until then nothing is responded, afterwards
\* nothing of it changes, and every step goes forward: no call is made again.
C26_TerminatesOnce ==
  /\ \A r \in Requests : (pc[r] # "idle") ~> Finished(r)
  /\ [](\A r \in Requests :
          /\ Finished(r) => Outcome(r)
          /\ ~Finished(r) => response[r] = "none"
          /\ Len(local[r].addCalls) <= 2
          /\ \A c \in {"findOne", "create", "sendSeen", "determineIntent", "getAnswer",
                       "processTransaction", "processBalanceQuery", "getBudgetMonth",
                       "shutdown", "sendTextMessage"} : Count(c, calls[r]) <= 1)
  /\ [][ \A r \in Requests :
           IF Finished(r)
             THEN UNCHANGED <<pc[r], response[r], calls[r], log[r], local[r]>>
             ELSE \/ UNCHANGED <<pc[r], response[r], calls[r], log[r], local[r]>>
                  \/ Forward(r) ]_vars

\* One invocation ended with status received after the transfer's two
\* postings, the other with an error after its budgeting branch shut down.
C26_Witness ==
  \E r, q \in Requests :
    /\ pc[r] = "done" /\ response[r] = "received"
    /\ Count("addTransactions", calls[r]) = 2 /\ Count("sendTextMessage", calls[r]) = 1
    /\ pc[q] = "failed" /\ response[q] = "error"
    /\ Count("shutdown", calls[q]) = 1

====
